---- MODULE Spec2Model ----
(***************************************************************************)
(* GoNote, a terminal client for SimpleNote: the command line parser       *)
(* (cmd.go), the entry point main() and the client simpleNoteClient with   *)
(* its request dispatcher makeRequest, Authorize, the index pagination     *)
(* getAllNotes, the concurrent body fetch of listNotes, showNotes,         *)
(* createNote, updateNote, editNote and deleteNote.                        *)
(*                                                                         *)
(* Conventions.  A Go string is a sequence of one-character strings, so    *)
(* len, TrimSpace, Split, Itoa and Atoi are computed.  The constants       *)
(* "true"/"false" produced by strconv.FormatBool, error values and program *)
(* positions are TLA+ strings.  A continuation mark and a session token    *)
(* are opaque server strings: they are numbered, 0 being the empty string. *)
(* Thread 0 is the main goroutine, thread i > 0 the i-th goroutine that    *)
(* listNotes launches.                                                     *)
(***************************************************************************)
EXTENDS Integers, Sequences, FiniteSets, TLC

(***************************************************************************)
(* Bounds of the model.                                                    *)
(***************************************************************************)
MaxNotes == 2        \* notes the server index holds
MaxStackDepth == 3   \* nested getAllNotes calls the goroutine stack holds
MaxFaults == 2       \* replies other than a well-formed 200 in one run
MaxShow == 3         \* notes handed to showNotes
MaxLimit == 4        \* largest value of the flag n

(***************************************************************************)
(* Program constants.                                                      *)
(***************************************************************************)
defaultNoteAmount == 100
SimpleNoteKeyLength == 32
StatusOK == 200
StatusUnauthorized == 401
StatusForbidden == 403
StatusPreconditionFailed == 412
StatusInternalServerError == 500

(***************************************************************************)
(* Strings.                                                                *)
(***************************************************************************)
Digits == <<"0", "1", "2", "3", "4", "5", "6", "7", "8", "9">>

IsDigit(c) == \E d \in 1..10 : Digits[d] = c

DigitVal(c) == (CHOOSE d \in 1..10 : Digits[d] = c) - 1

RECURSIVE NatToStr(_)
NatToStr(n) ==
    IF n < 10 THEN <<Digits[n + 1]>>
    ELSE NatToStr(n \div 10) \o <<Digits[(n % 10) + 1]>>

\* strconv.Itoa
Itoa(n) == IF n < 0 THEN <<"-">> \o NatToStr(0 - n) ELSE NatToStr(n)

RECURSIVE DigitsVal(_, _)
DigitsVal(s, acc) ==
    IF s = <<>> THEN acc ELSE DigitsVal(Tail(s), acc * 10 + DigitVal(Head(s)))

\* strconv.Atoi: an optional sign, then at least one digit and digits only.
Atoi(s) ==
    LET signed == s /= <<>> /\ Head(s) \in {"+", "-"}
        body == IF signed THEN Tail(s) ELSE s
        ok == body /= <<>> /\ \A i \in 1..Len(body) : IsDigit(body[i])
        v == IF ok THEN DigitsVal(body, 0) ELSE 0
    IN  [val |-> IF ok /\ signed /\ Head(s) = "-" THEN 0 - v ELSE v,
         err |-> ~ok]

\* strconv.FormatBool
FormatBool(b) == IF b THEN "true" ELSE "false"

\* ConvertToString of an int and of a bool.
ConvertIntToString(val) == Itoa(val)
ConvertBoolToString(val) == FormatBool(val)

\* CheckIn: whether needle is one of haystack's elements.
CheckIn(needle, haystack) == \E i \in 1..Len(haystack) : haystack[i] = needle

(***************************************************************************)
(* Notes.                                                                  *)
(***************************************************************************)
TagWork == <<"w", "o", "r", "k">>
TagHome == <<"h", "o", "m", "e">>
TagX == <<"x">>

\* The key the server assigns to its i-th note: 32 characters.
KeyOf(i) == [j \in 1..SimpleNoteKeyLength |-> Digits[(i % 10) + 1]]

\* The zero value Note{}.
EmptyNote ==
    [Content |-> <<>>, Tags |-> <<>>, SystemTags |-> <<>>, Deleted |-> 0,
     Key |-> <<>>, ModifyDate |-> <<>>]

Threads == 0..MaxNotes

IdleTask == [st |-> "idle"]

NoTty == [Piped |-> FALSE, Stdin |-> <<>>, Editor |-> <<>>, EditorErr |-> FALSE]

VARIABLES
    Params,     \* s.Params: Content, Tags, Action, Key, Flags
    Cfg,        \* s.Cfg: Email, Password, Markdown, Editor
    Token,      \* s.Token
    srvIndex,   \* server: the note summaries of the account, in index order
    srvPage,    \* server: the number of summaries it puts on one index page
    srvTok,     \* server: the number of tokens issued so far
    budget,     \* environment: the replies other than a well-formed 200 it may give
    faults,     \* environment: the replies other than a well-formed 200 given so far
    net,        \* per thread: the requests it put on the network, with the status replied
    mr,         \* per thread: the makeRequest call in progress
    frames,     \* the nested getAllNotes calls of the main goroutine
    pc,         \* position of the main goroutine
    exit,       \* how the process ended, "running" until then
    result,     \* listNotes: the notes and err that getAllNotes returned
    args,       \* os.Args[1:]
    tty,        \* the terminal: whether stdin is piped, its text, the editor's text
    note,       \* the local Note of createNote, editNote and deleteNote
    err,        \* the error the operation returned to main
    out,        \* what has been printed: the calls of showNotes and showNote
    task,       \* listNotes: per goroutine, its position and the note it holds
    noteCh,     \* listNotes: the buffered channel noteCh
    fullNotes,  \* listNotes: the notes collected so far
    reqTimeout  \* listNotes: the timer channel reqTimeout

vars == <<Params, Cfg, Token, srvIndex, srvPage, srvTok, budget, faults, net, mr,
          frames, pc, exit, result, args, tty, note, err, out, task, noteCh,
          fullNotes, reqTimeout>>

cliVars == <<Params, Cfg>>
srvData == <<srvIndex, srvPage, budget, args, tty>>
ioVars == <<note, err, out>>
listVars == <<task, noteCh, fullNotes, reqTimeout>>

(***************************************************************************)
(* The server.                                                             *)
(***************************************************************************)
Min(a, b) == IF a < b THEN a ELSE b

\* Number of index pages; an empty account has one empty page.
NumPages ==
    IF Len(srvIndex) = 0 THEN 1 ELSE (Len(srvIndex) + srvPage - 1) \div srvPage

\* The index holds no note bodies.
Summaries(ns) == [i \in 1..Len(ns) |-> [ns[i] EXCEPT !.Content = <<>>]]

\* The index page served for continuation mark m (0: no mark): page m + 1.
\* Its own mark is the number of the page, and empty (0) on the last page.
ServerPage(m) ==
    LET first == m * srvPage + 1
        last == Min(Len(srvIndex), (m + 1) * srvPage)
    IN  [kind |-> "list",
         Data |-> Summaries(SubSeq(srvIndex, first, last)),
         Mark |-> IF m + 1 < NumPages THEN m + 1 ELSE 0]

\* The note the server holds under key.
NoteFor(key) ==
    IF \E i \in 1..Len(srvIndex) : srvIndex[i].Key = key
    THEN srvIndex[CHOOSE i \in 1..Len(srvIndex) : srvIndex[i].Key = key]
    ELSE [EmptyNote EXCEPT !.Key = key, !.Content = <<"o", "l", "d">>,
                           !.ModifyDate = <<"5", "0">>]

\* What the server echoes of a posted note: not its content.  A new note
\* is assigned the next key.
Echo(key, sent) ==
    LET posted == IF sent.kind = "json" THEN sent.note ELSE EmptyNote
    IN  [posted EXCEPT !.Content = <<>>,
                       !.Key = IF key = <<>> THEN KeyOf(Len(srvIndex) + 1) ELSE key]

\* The well-formed 200 reply to a request carrying the body sent.
ServerBody(method, addr, query, sent) ==
    IF addr.endpoint = "index"
    THEN ServerPage(IF "mark" \in DOMAIN query THEN query["mark"] ELSE 0)
    ELSE IF method = "GET" THEN [kind |-> "note", note |-> NoteFor(addr.key)]
    ELSE IF method = "POST" THEN [kind |-> "note", note |-> Echo(addr.key, sent)]
    ELSE [kind |-> "empty"]

(***************************************************************************)
(* parseAddr: the query of a request.  The map p starts with auth and      *)
(* email and every caller parameter is then stored into it.                *)
(***************************************************************************)
parseAddr(params) ==
    [k \in {"auth", "email"} \cup DOMAIN params |->
        IF k \in DOMAIN params THEN params[k]
        ELSE IF k = "auth" THEN Token ELSE Cfg.Email]

NilParams == [k \in {} |-> 0]

(***************************************************************************)
(* Authorize.                                                              *)
(***************************************************************************)
\* What the authentication endpoint may answer: no response at all, a status
\* (with the token as body on 200), or a 200 whose body cannot be read.
AuthReplies ==
    {[kind |-> "status", code |-> StatusOK, body |-> srvTok + 1]}
    \cup (IF faults < budget
          THEN {[kind |-> "neterr", code |-> 0, body |-> 0],
                [kind |-> "status", code |-> StatusUnauthorized, body |-> 0],
                [kind |-> "status", code |-> StatusInternalServerError, body |-> 0],
                [kind |-> "readerr", code |-> StatusOK, body |-> 0]}
          ELSE {})

\* The error Authorize returns.
AuthorizeErr(reply) ==
    IF reply.kind = "neterr" THEN "net"
    ELSE IF reply.code /= StatusOK
    THEN "Error authorizing the client, check if username or password are valid. Status code was : "
            \o ToString(reply.code)
    ELSE IF reply.kind = "readerr" THEN "read"
    ELSE "nil"

\* Authorize that stores whatever it was answered.
AuthorizeTokenAlways(reply) == reply.body

\* Authorize that leaves s.Token as it was.
AuthorizeTokenKept(reply) == Token

\* s.Token after Authorize.
AuthorizeToken(reply) ==
    IF AuthorizeErr(reply) = "nil" THEN reply.body ELSE Token

LoginRequest(t, reply) ==
    [t |-> t, kind |-> "login", method |-> "POST",
     body |-> <<"base64", Cfg.Email, Cfg.Password>>, reply |-> reply]

(***************************************************************************)
(* makeRequest.                                                            *)
(***************************************************************************)
IdleCall == [st |-> "idle"]

\* The call makeRequest(addr, method, body, additionalParams) of thread t.
\* body is the io.Reader: its data and whether it has been read to the end.
Call(addr, method, body, params) ==
    [st |-> "build", addr |-> addr, method |-> method,
     body |-> [data |-> body, read |-> FALSE], params |-> params,
     query |-> NilParams, depth |-> 0]

NoBody == [kind |-> "none"]

\* The bytes a request carries: what is left to read of the io.Reader.
SentBody(c) == IF c.body.read THEN NoBody ELSE c.body.data

\* What Client.Do may produce for the request of call c.
Replies(c) ==
    {[kind |-> "ok", code |-> StatusOK,
      body |-> ServerBody(c.method, c.addr, c.query, SentBody(c))]}
    \cup (IF faults < budget
          THEN {[kind |-> "neterr", code |-> 0, body |-> [kind |-> "none"]],
                [kind |-> "ok", code |-> StatusOK, body |-> [kind |-> "garbage"]],
                [kind |-> "readerr", code |-> StatusOK, body |-> [kind |-> "none"]],
                [kind |-> "ok", code |-> 404, body |-> [kind |-> "text"]],
                [kind |-> "readerr", code |-> 404, body |-> [kind |-> "none"]]}
               \cup {[kind |-> "ok", code |-> s, body |-> [kind |-> "text"]] :
                        s \in {StatusUnauthorized, StatusForbidden,
                               StatusInternalServerError, StatusPreconditionFailed}}
          ELSE {})

IsFault(c, reply) ==
    ~(reply.kind = "ok" /\ reply.code = StatusOK /\ reply.body.kind /= "garbage")

ApiRequest(t, c, reply) ==
    [t |-> t, kind |-> "api", method |-> c.method, addr |-> c.addr,
     params |-> c.params, query |-> c.query, body |-> SentBody(c),
     reply |-> reply]

\* No status re-authorized on.
NeedsAuthNever(code) == FALSE

\* Whether makeRequest re-authorizes on this status.
NeedsAuth(code) == code = StatusForbidden \/ code = StatusUnauthorized

\* No status retried.
NeedsRetryNever(code) == FALSE

\* Whether makeRequest retries on this status without re-authorizing.
NeedsRetry(code) ==
    code = StatusInternalServerError \/ code = StatusPreconditionFailed

\* What makeRequest returns for a reply it neither retries nor re-authorizes.
Returned(reply) ==
    [st |-> "ret", response |-> reply.body,
     err |-> IF reply.kind = "readerr" THEN "read" ELSE "nil",
     code |-> reply.code]

\* http.NewRequest and parseAddr: the query reads s.Token and s.Cfg.Email.
MRBuild(t) ==
    /\ exit = "running"
    /\ mr[t].st = "build"
    /\ mr' = [mr EXCEPT ![t].st = "do", ![t].query = parseAddr(mr[t].params)]
    /\ UNCHANGED <<cliVars, Token, srvData, srvTok, faults, net, frames, pc,
                   exit, result,
                   ioVars, listVars>>

\* Client.Do and what follows it.  Without a response, resp is nil and the
\* deferred resp.Body.Close() dereferences it before err is looked at.
MRDo(t) ==
    /\ exit = "running"
    /\ mr[t].st = "do"
    /\ \E reply \in Replies(mr[t]) :
        LET c == mr[t]
            sent == [c EXCEPT !.body.read = TRUE]
        IN  /\ net' = [net EXCEPT ![t] = Append(net[t], ApiRequest(t, c, reply))]
            /\ faults' = IF IsFault(c, reply) THEN faults + 1 ELSE faults
            /\ IF reply.kind = "neterr"
               THEN /\ exit' = "panic"
                    /\ mr' = [mr EXCEPT ![t] = sent]
               ELSE /\ exit' = exit
                    /\ IF NeedsAuth(reply.code)
                       THEN mr' = [mr EXCEPT ![t] = [sent EXCEPT !.st = "auth"]]
                       ELSE IF NeedsRetry(reply.code)
                       THEN mr' = [mr EXCEPT ![t] =
                                     [sent EXCEPT !.st = "build",
                                                  !.depth = c.depth + 1]]
                       ELSE mr' = [mr EXCEPT ![t] = Returned(reply)]
    /\ UNCHANGED <<cliVars, Token, srvData, srvTok, frames, pc, result,
                   ioVars, listVars>>

\* The Authorize call of makeRequest after a 401 or 403, and the recursive
\* makeRequest call when it succeeded.
MRAuthorize(t) ==
    /\ exit = "running"
    /\ mr[t].st = "auth"
    /\ \E reply \in AuthReplies :
        /\ net' = [net EXCEPT ![t] = Append(net[t], LoginRequest(t, reply))]
        /\ faults' = IF AuthorizeErr(reply) = "nil" THEN faults ELSE faults + 1
        /\ srvTok' = IF AuthorizeErr(reply) = "nil" THEN srvTok + 1 ELSE srvTok
        /\ Token' = AuthorizeToken(reply)
        /\ IF AuthorizeErr(reply) = "nil"
           THEN mr' = [mr EXCEPT ![t].st = "build", ![t].depth = mr[t].depth + 1]
           ELSE mr' = [mr EXCEPT ![t] =
                         [st |-> "ret", response |-> [kind |-> "none"],
                          err |-> AuthorizeErr(reply), code |-> 0]]
    /\ UNCHANGED <<cliVars, srvData, frames, pc, exit, result,
                   ioVars, listVars>>

(***************************************************************************)
(* getAllNotes.                                                            *)
(***************************************************************************)
\* TagLoop without the break after the append.
RECURSIVE TagLoopNoBreak(_, _, _)
TagLoopNoBreak(i, n, notes) ==
    IF i > Len(Params.Tags) THEN notes
    ELSE IF CheckIn(Params.Tags[i], n.Tags)
    THEN TagLoopNoBreak(i + 1, n, Append(notes, n))
    ELSE TagLoopNoBreak(i + 1, n, notes)

\* The loop over s.Params.Tags for the summary n, from the i-th tag on.
RECURSIVE TagLoop(_, _, _)
TagLoop(i, n, notes) ==
    IF i > Len(Params.Tags) THEN notes
    ELSE IF CheckIn(Params.Tags[i], n.Tags) THEN Append(notes, n)
    ELSE TagLoop(i + 1, n, notes)

\* SkipDeleted looking at the note alone.
SkipDeletedAlways(n) == n.Deleted = 1

\* Whether the deletion filter skips the summary n.
SkipDeleted(n) == Params.Flags.deleted /= "true" /\ n.Deleted = 1

\* The loop over l.Data from the i-th summary on.
RECURSIVE FilterLoop(_, _, _)
FilterLoop(data, i, notes) ==
    IF i > Len(data) THEN notes
    ELSE IF SkipDeleted(data[i]) THEN FilterLoop(data, i + 1, notes)
    ELSE IF Len(Params.Tags) > 0
    THEN FilterLoop(data, i + 1, TagLoop(1, data[i], notes))
    ELSE FilterLoop(data, i + 1, Append(notes, data[i]))

\* The query parameters of the index request for mark.
IndexParams(mark) ==
    IF mark /= 0
    THEN [k \in {"length", "mark"} |->
            IF k = "mark" THEN mark ELSE Itoa(defaultNoteAmount)]
    ELSE [k \in {"length"} |-> Itoa(defaultNoteAmount)]

\* The mark the recursive call is given, in the frame called with mark that
\* decoded the page l.
RecursionMark(mark, l) == mark

\* The notes a frame returns after its recursive call returned newNotes.
AppendRest(notes, newNotes) == notes \o newNotes

Frame(notes, mark) ==
    [st |-> "call", notes |-> notes, mark |-> mark, err |-> "nil"]

Top == frames[Len(frames)]

SetTop(f) == [frames EXCEPT ![Len(frames)] = f]

\* The frame f once it has returned (notes, e).
ReturnFrame(f, notes, e) ==
    [f EXCEPT !.st = "done", !.notes = notes, !.err = e]

\* The index request of the innermost call.
GetAllNotesRequest ==
    /\ exit = "running"
    /\ pc = "getAllNotes"
    /\ Top.st = "call"
    /\ mr[0].st = "idle"
    /\ mr' = [mr EXCEPT ![0] =
                Call([endpoint |-> "index", key |-> <<>>], "GET", NoBody,
                     IndexParams(Top.mark))]
    /\ frames' = SetTop([Top EXCEPT !.st = "wait"])
    /\ UNCHANGED <<cliVars, Token, srvData, srvTok, faults, net, pc, exit, result,
                   ioVars, listVars>>

\* From the return of makeRequest to the recursive call or the return.
GetAllNotesPage ==
    /\ exit = "running"
    /\ pc = "getAllNotes"
    /\ Top.st = "wait"
    /\ mr[0].st = "ret"
    /\ mr' = [mr EXCEPT ![0] = IdleCall]
    /\ LET r == mr[0]
           l == r.response
           notes == FilterLoop(l.Data, 1, Top.notes)
       IN  IF r.err /= "nil"
           THEN /\ frames' = SetTop(ReturnFrame(Top, <<>>, r.err))
                /\ exit' = exit
           ELSE IF r.code /= StatusOK
           THEN /\ frames' = SetTop(ReturnFrame(Top, <<>>, "status"))
                /\ exit' = exit
           ELSE IF l.kind /= "list"
           THEN /\ frames' = SetTop(ReturnFrame(Top, <<>>, "decode"))
                /\ exit' = exit
           ELSE IF l.Mark /= 0
           THEN IF Len(frames) < MaxStackDepth
                THEN /\ frames' = Append(SetTop([Top EXCEPT !.st = "rec",
                                                            !.notes = notes]),
                                         Frame(notes, RecursionMark(Top.mark, l)))
                     /\ exit' = exit
                ELSE /\ frames' = SetTop([Top EXCEPT !.st = "rec", !.notes = notes])
                     /\ exit' = "overflow"
           ELSE /\ frames' = SetTop(ReturnFrame(Top, notes, "nil"))
                /\ exit' = exit
    /\ UNCHANGED <<cliVars, Token, srvData, srvTok, faults, net, pc, result,
                   ioVars, listVars>>

\* The return of a nested call into the frame that made it.
GetAllNotesReturn ==
    /\ exit = "running"
    /\ pc = "getAllNotes"
    /\ Len(frames) > 1
    /\ Top.st = "done"
    /\ LET parent == frames[Len(frames) - 1]
           done == IF Top.err /= "nil"
                   THEN ReturnFrame(parent, <<>>, Top.err)
                   ELSE ReturnFrame(parent, AppendRest(parent.notes, Top.notes), "nil")
       IN  frames' = Append(SubSeq(frames, 1, Len(frames) - 2), done)
    /\ UNCHANGED <<cliVars, Token, srvData, srvTok, faults, net, mr, pc, exit, result,
                   ioVars, listVars>>

\* The return of the outermost call to listNotes.
GetAllNotesDone ==
    /\ exit = "running"
    /\ pc = "getAllNotes"
    /\ Len(frames) = 1
    /\ Top.st = "done"
    /\ result' = [notes |-> Top.notes, err |-> Top.err]
    /\ frames' = <<>>
    /\ pc' = "listNotes"
    /\ UNCHANGED <<cliVars, Token, srvData, srvTok, faults, net, mr, exit,
                   ioVars, listVars>>

(***************************************************************************)
(* The command line: cmd.go.                                               *)
(***************************************************************************)
IsSpace(c) == c \in {" ", "\t", "\n", "\r"}

RECURSIVE TrimLeft(_)
TrimLeft(s) == IF s /= <<>> /\ IsSpace(Head(s)) THEN TrimLeft(Tail(s)) ELSE s

RECURSIVE TrimRight(_)
TrimRight(s) ==
    IF s /= <<>> /\ IsSpace(s[Len(s)]) THEN TrimRight(SubSeq(s, 1, Len(s) - 1))
    ELSE s

\* strings.TrimSpace
TrimSpace(s) == TrimRight(TrimLeft(s))

\* strings.Join(a, sep)
RECURSIVE Join(_, _)
Join(a, sep) ==
    IF a = <<>> THEN <<>>
    ELSE IF Len(a) = 1 THEN a[1]
    ELSE a[1] \o sep \o Join(Tail(a), sep)

\* a[i:]
From(a, i) == SubSeq(a, i, Len(a))

\* The first position of the character c in s, Len(s) + 1 when there is none.
RECURSIVE IndexOf(_, _, _)
IndexOf(s, c, i) ==
    IF i > Len(s) \/ s[i] = c THEN i ELSE IndexOf(s, c, i + 1)

tagPrefix == "@"

WordVersion == <<"v", "e", "r", "s", "i", "o", "n">>
WordList == <<"l", "i", "s", "t">>
WordDelete == <<"d", "e", "l", "e", "t", "e">>
WordEdit == <<"e", "d", "i", "t">>
WordGet == <<"g", "e", "t">>
WordN == <<"n">>
WordDeleted == <<"d", "e", "l", "e", "t", "e", "d">>
WordPermanently == <<"p", "e", "r", "m", "a", "n", "e", "n", "t", "l", "y">>

\* CustomActions: the name of each action and whether it requires a key.
CustomActions ==
    {[name |-> WordVersion, requiresKey |-> FALSE],
     [name |-> WordList, requiresKey |-> FALSE],
     [name |-> WordDelete, requiresKey |-> TRUE],
     [name |-> WordEdit, requiresKey |-> TRUE],
     [name |-> WordGet, requiresKey |-> TRUE]}

\* Any key argument accepted.
KeyLengthAny(arg) == TRUE

\* Whether the key argument of an action that requires one is accepted.
KeyLengthOk(arg) == Len(arg) = SimpleNoteKeyLength

\* getAction: the remaining arguments, the error, and Params.Action and
\* Params.Key as it leaves them.
getAction(a) ==
    IF Len(a) = 0 \/ ~\E act \in CustomActions : act.name = a[1]
    THEN [args |-> a, err |-> "nil", Action |-> <<>>, Key |-> <<>>]
    ELSE LET act == CHOOSE x \in CustomActions : x.name = a[1]
         IN  IF ~act.requiresKey
             THEN [args |-> From(a, 2), err |-> "nil", Action |-> act.name,
                   Key |-> <<>>]
             ELSE IF Len(a) < 2
             THEN [args |-> <<>>, err |-> "Missing note key parameter.",
                   Action |-> act.name, Key |-> <<>>]
             ELSE IF ~KeyLengthOk(a[2])
             THEN [args |-> <<>>, err |-> "Invalid identifier passed",
                   Action |-> act.name, Key |-> <<>>]
             ELSE [args |-> From(a, 3), err |-> "nil", Action |-> act.name,
                   Key |-> TrimSpace(a[2])]

HasTagPrefix(arg) == arg /= <<>> /\ Head(arg) = tagPrefix

\* getTags: the loop from the i-th argument on; tags are the tags found so far.
RECURSIVE getTags(_, _, _)
getTags(a, i, tags) ==
    IF i > Len(a) THEN [args |-> a, Tags |-> tags]
    ELSE IF HasTagPrefix(a[i])
    THEN IF i = Len(a)
         THEN [args |-> <<>>, Tags |-> Append(tags, Tail(a[i]))]
         ELSE getTags(a, i + 1, Append(tags, Tail(a[i])))
    ELSE [args |-> From(a, i), Tags |-> tags]

\* strconv.ParseBool on the spellings "true", "1", "false" and "0".
ParseBool(s) ==
    IF s \in {<<"t", "r", "u", "e">>, <<"1">>} THEN [val |-> TRUE, err |-> FALSE]
    ELSE IF s \in {<<"f", "a", "l", "s", "e">>, <<"0">>}
    THEN [val |-> FALSE, err |-> FALSE]
    ELSE [val |-> FALSE, err |-> TRUE]

\* FlagSet.Parse from the i-th argument on: f holds the values of the flags
\* n, deleted and permanently; err is set where ExitOnError ends the process.
RECURSIVE FlagParse(_, _, _)
FlagParse(a, i, f) ==
    IF i > Len(a) \/ Len(a[i]) < 2 \/ a[i][1] /= "-"
    THEN [f EXCEPT !.args = From(a, i)]
    ELSE LET minuses == IF a[i][2] = "-" THEN 2 ELSE 1
             rest == From(a[i], minuses + 1)
             eq == IndexOf(rest, "=", 1)
             name == SubSeq(rest, 1, eq - 1)
             hasValue == eq <= Len(rest)
             value == From(rest, eq + 1)
         IN  IF minuses = 2 /\ Len(a[i]) = 2
             THEN [f EXCEPT !.args = From(a, i + 1)]
             ELSE IF rest = <<>> \/ rest[1] \in {"-", "="}
             THEN [f EXCEPT !.err = TRUE]
             ELSE IF name \in {WordDeleted, WordPermanently}
             THEN LET b == IF hasValue THEN ParseBool(value)
                           ELSE [val |-> TRUE, err |-> FALSE]
                  IN  IF b.err THEN [f EXCEPT !.err = TRUE]
                      ELSE IF name = WordDeleted
                      THEN FlagParse(a, i + 1, [f EXCEPT !.deleted = b.val])
                      ELSE FlagParse(a, i + 1, [f EXCEPT !.permanently = b.val])
             ELSE IF name = WordN
             THEN IF ~hasValue /\ i = Len(a) THEN [f EXCEPT !.err = TRUE]
                  ELSE LET v == Atoi(IF hasValue THEN value ELSE a[i + 1])
                           next == IF hasValue THEN i + 1 ELSE i + 2
                       IN  IF v.err THEN [f EXCEPT !.err = TRUE]
                           ELSE FlagParse(a, next, [f EXCEPT !.n = v.val])
             ELSE [f EXCEPT !.err = TRUE]

\* getFlags: the flags' defaults, the parse, and Params.Flags.
getFlags(a) ==
    LET f == FlagParse(a, 1, [n |-> -1, deleted |-> FALSE, permanently |-> FALSE,
                              err |-> FALSE, args |-> <<>>])
    IN  [args |-> f.args, err |-> f.err,
         Flags |-> [n |-> ConvertIntToString(f.n),
                    deleted |-> ConvertBoolToString(f.deleted),
                    permanently |-> ConvertBoolToString(f.permanently)]]

\* Params as newCommandLineParser makes it: a Go map yields "" for a key
\* it does not hold.
NewParams ==
    [Content |-> <<>>, Tags |-> <<>>, Action |-> <<>>, Key |-> <<>>,
     Flags |-> [n |-> <<>>, deleted |-> "", permanently |-> ""]]

(***************************************************************************)
(* main, Handle and the operations on one note.                            *)
(***************************************************************************)
DataAddr(key) == [endpoint |-> "data", key |-> key]

\* json.Marshal(n) as a request body.
JsonBody(n) == [kind |-> "json", note |-> n]

\* json.Unmarshal(resp, &i) for i := Note{}: the note that was decoded, the
\* zero Note when resp does not decode.
Unmarshal(resp) == IF resp.kind = "note" THEN resp.note ELSE EmptyNote

\* fetchNote that never ends the process.
FetchErrNone(r) == "nil"

\* The error fetchNote hands to log.Fatal, "nil" when it returns the note.
FetchErr(r) ==
    IF r.err /= "nil" THEN r.err
    ELSE IF r.code /= StatusOK THEN "status"
    ELSE IF r.response.kind /= "note" THEN "decode"
    ELSE "nil"

\* updateNote that returns no error.
UpdateErrNone(r) == "nil"

\* The error updateNote returns.
UpdateErr(r) == IF r.code /= StatusOK THEN "status" ELSE r.err

\* The error createNote returns and the one deleteNote returns for its
\* DELETE request.
RequestErr(r) ==
    IF r.err /= "nil" THEN r.err
    ELSE IF r.code /= StatusOK THEN "status"
    ELSE "nil"

\* The decoded response as it is.
CreatedNoteAsDecoded(resp, n) == resp

\* The note createNote returns for the decoded response resp to the note n.
CreatedNote(resp, n) == [resp EXCEPT !.Content = n.Content]

\* An entry of out: what was called, with which notes, and the notes whose
\* records it printed, in the order printed.
Shown(fn, notes, parsed) == [fn |-> fn, notes |-> notes, parsed |-> parsed]

Printed(fn, n) == Shown(fn, <<n>>, <<n>>)

\* The process ends: log.Fatal(e) when e is an error, main returns otherwise.
EndWith(e) ==
    /\ exit' = IF e = "nil" THEN "ok" ELSE "fatal"
    /\ err' = e

\* main up to Authorize: Grab, and the return when there is nothing to send.
Parse ==
    /\ exit = "running"
    /\ pc = "main"
    /\ LET action == getAction(args)
           tagged == getTags(action.args, 1, <<>>)
           flagged == getFlags(tagged.args)
           content ==
               IF tty.Piped THEN tty.Stdin
               ELSE IF action.Action /= <<>> THEN <<>>
               ELSE IF Len(flagged.args) > 0 THEN Join(flagged.args, <<" ">>)
               ELSE TrimSpace(tty.Editor)
           parsed == [Content |-> content, Tags |-> tagged.Tags,
                      Action |-> action.Action, Key |-> action.Key,
                      Flags |-> flagged.Flags]
       IN  IF action.err /= "nil"
           THEN /\ Params' = [Params EXCEPT !.Action = action.Action]
                /\ EndWith(action.err)
                /\ pc' = pc
           ELSE IF flagged.err
           THEN /\ Params' = [Params EXCEPT !.Action = action.Action,
                                            !.Key = action.Key,
                                            !.Tags = tagged.Tags]
                /\ exit' = "usage"
                /\ UNCHANGED <<err, pc>>
           ELSE IF tty.Piped /\ tty.Stdin = <<>>
           THEN /\ Params' = [parsed EXCEPT !.Content = <<>>]
                /\ exit' = "hang"
                /\ UNCHANGED <<err, pc>>
           ELSE IF ~tty.Piped /\ action.Action = <<>> /\ Len(flagged.args) = 0
                   /\ tty.EditorErr
           THEN /\ Params' = [parsed EXCEPT !.Content = <<>>]
                /\ EndWith("editor")
                /\ pc' = pc
           ELSE IF parsed.Content = <<>> /\ parsed.Action = <<>>
           THEN /\ Params' = parsed
                /\ EndWith("nil")
                /\ pc' = pc
           ELSE /\ Params' = parsed
                /\ pc' = "Authorize"
                /\ UNCHANGED <<exit, err>>
    /\ UNCHANGED <<Cfg, Token, srvData, srvTok, faults, net, mr, frames, result,
                   note, out, listVars>>

\* simpleNoteClient.Authorize() in main: what it returns is dropped.
MainAuthorize ==
    /\ exit = "running"
    /\ pc = "Authorize"
    /\ \E reply \in AuthReplies :
        /\ net' = [net EXCEPT ![0] = Append(net[0], LoginRequest(0, reply))]
        /\ faults' = IF AuthorizeErr(reply) = "nil" THEN faults ELSE faults + 1
        /\ srvTok' = IF AuthorizeErr(reply) = "nil" THEN srvTok + 1 ELSE srvTok
        /\ Token' = AuthorizeToken(reply)
    /\ pc' = "Handle"
    /\ UNCHANGED <<cliVars, srvData, mr, frames, exit, result, ioVars, listVars>>

\* Handle: the switch on Params.Action.
Handle ==
    /\ exit = "running"
    /\ pc = "Handle"
    /\ IF Params.Action = WordVersion
       THEN /\ out' = Append(out, Printed("ListVersion", EmptyNote))
            /\ EndWith("nil")
            /\ UNCHANGED <<pc, frames>>
       ELSE /\ pc' = IF Params.Action = WordList THEN "getAllNotes"
                     ELSE IF Params.Action = WordEdit THEN "editNote"
                     ELSE IF Params.Action = WordDelete THEN "deleteNote"
                     ELSE IF Params.Action = WordGet THEN "get"
                     ELSE "createNote"
            /\ frames' = IF Params.Action = WordList THEN <<Frame(<<>>, 0)>>
                         ELSE frames
            /\ UNCHANGED <<exit, err, out>>
    /\ UNCHANGED <<cliVars, Token, srvData, srvTok, faults, net, mr, result,
                   note, listVars>>

\* The makeRequest call of fetchNote in get, editNote and deleteNote.
FetchNoteRequest ==
    /\ exit = "running"
    /\ pc \in {"get", "editNote", "deleteNote"}
    /\ mr[0].st = "idle"
    /\ mr' = [mr EXCEPT ![0] = Call(DataAddr(Params.Key), "GET", NoBody, NilParams)]
    /\ UNCHANGED <<cliVars, Token, srvData, srvTok, faults, net, frames, pc,
                   exit, result, ioVars, listVars>>

\* Handle, case "get": the rest of fetchNote, then showNote.
GetNote ==
    /\ exit = "running"
    /\ pc = "get"
    /\ mr[0].st = "ret"
    /\ mr' = [mr EXCEPT ![0] = IdleCall]
    /\ IF FetchErr(mr[0]) /= "nil"
       THEN /\ EndWith(FetchErr(mr[0]))
            /\ out' = out
       ELSE /\ EndWith("nil")
            /\ out' = Append(out, Printed("showNote", mr[0].response.note))
    /\ UNCHANGED <<cliVars, Token, srvData, srvTok, faults, net, frames, pc,
                   result, note, listVars>>

\* editNote after the request of fetchNote: the editor, then the request of
\* updateNote.
EditNote ==
    /\ exit = "running"
    /\ pc = "editNote"
    /\ mr[0].st = "ret"
    /\ LET fetched == mr[0].response.note
           edited == [fetched EXCEPT !.Content = TrimSpace(tty.Editor)]
       IN  IF FetchErr(mr[0]) /= "nil"
           THEN /\ EndWith(FetchErr(mr[0]))
                /\ mr' = [mr EXCEPT ![0] = IdleCall]
                /\ UNCHANGED <<pc, note>>
           ELSE IF tty.EditorErr
           THEN /\ EndWith("editor")
                /\ mr' = [mr EXCEPT ![0] = IdleCall]
                /\ UNCHANGED <<pc, note>>
           ELSE IF Params.Key = <<>>
           THEN /\ EndWith("Missing key parameter in request.")
                /\ mr' = [mr EXCEPT ![0] = IdleCall]
                /\ note' = edited
                /\ pc' = pc
           ELSE /\ note' = edited
                /\ mr' = [mr EXCEPT ![0] =
                            Call(DataAddr(edited.Key), "POST", JsonBody(edited),
                                 NilParams)]
                /\ pc' = "editNote_updateNote"
                /\ UNCHANGED <<exit, err>>
    /\ UNCHANGED <<cliVars, Token, srvData, srvTok, faults, net, frames, result,
                   out, listVars>>

\* deleteNote after the request of fetchNote: Deleted = 1, then the request
\* of updateNote.
DeleteNote ==
    /\ exit = "running"
    /\ pc = "deleteNote"
    /\ mr[0].st = "ret"
    /\ LET fetched == mr[0].response.note
           trashed == [fetched EXCEPT !.Deleted = 1]
       IN  IF FetchErr(mr[0]) /= "nil"
           THEN /\ EndWith(FetchErr(mr[0]))
                /\ mr' = [mr EXCEPT ![0] = IdleCall]
                /\ UNCHANGED <<pc, note>>
           ELSE IF Params.Key = <<>>
           THEN /\ EndWith("Missing key parameter in request.")
                /\ mr' = [mr EXCEPT ![0] = IdleCall]
                /\ note' = trashed
                /\ pc' = pc
           ELSE /\ note' = trashed
                /\ mr' = [mr EXCEPT ![0] =
                            Call(DataAddr(trashed.Key), "POST", JsonBody(trashed),
                                 NilParams)]
                /\ pc' = "deleteNote_updateNote"
                /\ UNCHANGED <<exit, err>>
    /\ UNCHANGED <<cliVars, Token, srvData, srvTok, faults, net, frames, result,
                   out, listVars>>

\* The rest of updateNote, and of its caller: editNote returns what it
\* returned; deleteNote goes on to the DELETE request when the flag
\* permanently is "true".
UpdateNote ==
    /\ exit = "running"
    /\ pc \in {"editNote_updateNote", "deleteNote_updateNote"}
    /\ mr[0].st = "ret"
    /\ out' = IF mr[0].code = StatusOK THEN Append(out, Printed("Note updated.", note))
              ELSE out
    /\ IF pc = "deleteNote_updateNote" /\ UpdateErr(mr[0]) = "nil"
          /\ Params.Flags.permanently = "true"
       THEN /\ mr' = [mr EXCEPT ![0] =
                        Call(DataAddr(note.Key), "DELETE", NoBody, NilParams)]
            /\ pc' = "deleteNote_permanently"
            /\ UNCHANGED <<exit, err>>
       ELSE /\ mr' = [mr EXCEPT ![0] = IdleCall]
            /\ EndWith(UpdateErr(mr[0]))
            /\ pc' = pc
    /\ UNCHANGED <<cliVars, Token, srvData, srvTok, faults, net, frames, result,
                   note, listVars>>

\* deleteNote after its DELETE request.
DeletePermanently ==
    /\ exit = "running"
    /\ pc = "deleteNote_permanently"
    /\ mr[0].st = "ret"
    /\ mr' = [mr EXCEPT ![0] = IdleCall]
    /\ EndWith(RequestErr(mr[0]))
    /\ UNCHANGED <<cliVars, Token, srvData, srvTok, faults, net, frames, pc,
                   result, note, out, listVars>>

\* createNote up to its request.
CreateNoteRequest ==
    /\ exit = "running"
    /\ pc = "createNote"
    /\ mr[0].st = "idle"
    /\ LET n == [EmptyNote EXCEPT
                   !.Content = Params.Content,
                   !.Tags = Params.Tags,
                   !.SystemTags = IF Cfg.Markdown THEN <<"markdown">> ELSE <<>>]
       IN  /\ note' = n
           /\ mr' = [mr EXCEPT ![0] =
                       Call(DataAddr(<<>>), "POST", JsonBody(n), NilParams)]
    /\ pc' = "createNote_wait"
    /\ UNCHANGED <<cliVars, Token, srvData, srvTok, faults, net, frames, exit,
                   result, err, out, listVars>>

\* The rest of createNote, and of Handle: showNote of the note returned.
CreateNote ==
    /\ exit = "running"
    /\ pc = "createNote_wait"
    /\ mr[0].st = "ret"
    /\ mr' = [mr EXCEPT ![0] = IdleCall]
    /\ IF RequestErr(mr[0]) /= "nil"
       THEN /\ EndWith(RequestErr(mr[0]))
            /\ out' = out
       ELSE IF mr[0].response.kind /= "note"
       THEN /\ EndWith("decode")
            /\ out' = out
       ELSE /\ EndWith("nil")
            /\ out' = Append(out, Printed("showNote",
                                          CreatedNote(mr[0].response.note, note)))
    /\ UNCHANGED <<cliVars, Token, srvData, srvTok, faults, net, frames, pc,
                   result, note, listVars>>

(***************************************************************************)
(* showNotes.                                                              *)
(***************************************************************************)
\* GetSimpleNoteTimestamp: the seconds before the first ".", 0 when they
\* are no number.
GetSimpleNoteTimestamp(d) == Atoi(SubSeq(d, 1, IndexOf(d, ".", 1) - 1)).val

\* Notes.Less
Less(a, b) ==
    GetSimpleNoteTimestamp(a.ModifyDate) < GetSimpleNoteTimestamp(b.ModifyDate)

Orders(n) ==
    {p \in [1..n -> 1..n] : \A i, j \in 1..n : i /= j => p[i] /= p[j]}

\* sort.Sort(notes): any order of the notes in which no note is followed by
\* a note that is Less; sort.Sort does not say which one it produces.
Sorted(notes) ==
    {[i \in 1..Len(notes) |-> notes[p[i]]] :
        p \in {q \in Orders(Len(notes)) :
                 \A i, j \in 1..Len(notes) :
                     i < j => ~Less(notes[q[j]], notes[q[i]])}}

\* Don't show empty notes.
NonEmpty(n) == n.Content /= <<>>

\* The value of n that showNotes cuts with, for len(parsed) = count.
Limit(count) ==
    LET a == Atoi(Params.Flags.n)
        n == IF a.err THEN count ELSE a.val
    IN  IF n > count THEN count ELSE n

\* cut counted from the start of parsed.
CutFromStart(count) == Limit(count)

\* cut, for len(parsed) = count.
Cut(count) == count - Limit(count)

\* What showNotes(notes) may print: for each order sort.Sort may produce,
\* the records printed; panic when the slice expression is out of range.
showNotes(notes) ==
    {LET parsed == SelectSeq(sorted, NonEmpty)
     IN  IF Len(parsed) = 0
         THEN [panic |-> FALSE, shown |-> Shown("showNotes", notes, <<>>)]
         ELSE IF Params.Flags.n /= <<"-", "1">>
         THEN IF Cut(Len(parsed)) > Len(parsed)
              THEN [panic |-> TRUE, shown |-> Shown("showNotes", notes, <<>>)]
              ELSE [panic |-> FALSE,
                    shown |-> Shown("showNotes", notes,
                                    From(parsed, Cut(Len(parsed)) + 1))]
         ELSE [panic |-> FALSE, shown |-> Shown("showNotes", notes, parsed)] :
     sorted \in Sorted(notes)}

\* The call showNotes(notes) as the last statement of listNotes.
ShowAndReturn(notes) ==
    \E o \in showNotes(notes) :
        /\ out' = IF o.panic THEN out ELSE Append(out, o.shown)
        /\ exit' = IF o.panic THEN "panic" ELSE "ok"
        /\ err' = err

(***************************************************************************)
(* listNotes after getAllNotes.                                            *)
(***************************************************************************)
\* From the return of getAllNotes to the select loop: the channel, the
\* goroutines and the timer.
ListNotesStart ==
    /\ exit = "running"
    /\ pc = "listNotes"
    /\ IF result.err /= "nil"
       THEN /\ EndWith(result.err)
            /\ UNCHANGED <<pc, out, task, reqTimeout>>
       ELSE IF Len(result.notes) = 0
       THEN /\ ShowAndReturn(<<>>)
            /\ UNCHANGED <<pc, task, reqTimeout>>
       ELSE /\ task' = [t \in 1..MaxNotes |->
                          IF t <= Len(result.notes)
                          THEN [st |-> "start", n |-> result.notes[t]]
                          ELSE IdleTask]
            /\ reqTimeout' = "armed"
            /\ pc' = "select"
            /\ UNCHANGED <<exit, err, out>>
    /\ UNCHANGED <<cliVars, Token, srvData, srvTok, faults, net, mr, frames,
                   result, note, noteCh, fullNotes>>

\* The goroutine t: the makeRequest call of fetchNote(&n).
TaskRequest(t) ==
    /\ exit = "running"
    /\ task[t].st = "start"
    /\ mr[t].st = "idle"
    /\ mr' = [mr EXCEPT ![t] = Call(DataAddr(task[t].n.Key), "GET", NoBody, NilParams)]
    /\ task' = [task EXCEPT ![t].st = "fetch"]
    /\ UNCHANGED <<cliVars, Token, srvData, srvTok, faults, net, frames, pc,
                   exit, result, ioVars, noteCh, fullNotes, reqTimeout>>

\* The goroutine t: the rest of fetchNote; log.Fatal ends the process.
TaskFetched(t) ==
    /\ exit = "running"
    /\ task[t].st = "fetch"
    /\ mr[t].st = "ret"
    /\ mr' = [mr EXCEPT ![t] = IdleCall]
    /\ IF FetchErr(mr[t]) /= "nil"
       THEN /\ EndWith(FetchErr(mr[t]))
            /\ task' = task
       ELSE /\ task' = [task EXCEPT ![t] = [st |-> "send",
                                                   n |-> Unmarshal(mr[t].response)]]
            /\ UNCHANGED <<exit, err>>
    /\ UNCHANGED <<cliVars, Token, srvData, srvTok, faults, net, frames, pc,
                   result, note, out, noteCh, fullNotes, reqTimeout>>

\* noteCh without a buffer.
CapUnbuffered == Len(<<>>)

\* cap(noteCh) for noteCh := make(chan Note, len(notes)).
Cap == Len(result.notes)

\* The goroutine t: the send on noteCh, which holds len(notes) notes.
TaskSend(t) ==
    /\ exit = "running"
    /\ task[t].st = "send"
    /\ Len(noteCh) < Cap
    /\ noteCh' = Append(noteCh, task[t].n)
    /\ task' = [task EXCEPT ![t].st = "done"]
    /\ UNCHANGED <<cliVars, Token, srvData, srvTok, faults, net, mr, frames, pc,
                   exit, result, ioVars, fullNotes, reqTimeout>>

\* The timer: defaultNoteFetchTimeout seconds have passed.
TimerFires ==
    /\ exit = "running"
    /\ reqTimeout = "armed"
    /\ reqTimeout' = "fired"
    /\ UNCHANGED <<cliVars, Token, srvData, srvTok, faults, net, mr, frames, pc,
                   exit, result, ioVars, task, noteCh, fullNotes>>

\* Complete, one note early.
CompleteEarly(count) == count >= Len(result.notes) - 1

\* Whether the select loop has all the notes with count collected.
Complete(count) == count = Len(result.notes)

\* The timeout case presenting what has been collected.
OnTimeoutPartial == ShowAndReturn(fullNotes)

\* select, case <-reqTimeout: the return of the error.
OnTimeout ==
    /\ EndWith("Timeout when fetching notes")
    /\ out' = out

\* select, case retrieved := <-noteCh.
ListNotesReceive ==
    /\ exit = "running"
    /\ pc = "select"
    /\ noteCh /= <<>>
    /\ noteCh' = Tail(noteCh)
    /\ fullNotes' = Append(fullNotes, Head(noteCh))
    /\ IF Complete(Len(fullNotes) + 1)
       THEN ShowAndReturn(Append(fullNotes, Head(noteCh)))
       ELSE UNCHANGED <<exit, err, out>>
    /\ UNCHANGED <<cliVars, Token, srvData, srvTok, faults, net, mr, frames, pc,
                   result, note, task, reqTimeout>>

\* select, case <-reqTimeout.
ListNotesTimeout ==
    /\ exit = "running"
    /\ pc = "select"
    /\ reqTimeout = "fired"
    /\ OnTimeout
    /\ UNCHANGED <<cliVars, Token, srvData, srvTok, faults, net, mr, frames, pc,
                   result, note, listVars>>

(***************************************************************************)
(* The index fetch alone: listNotes calls getAllNotes(notes, "") with an   *)
(* empty accumulator, for every account, page size, tag filter and value   *)
(* of the flag deleted.                                                    *)
(***************************************************************************)
SummaryTags == {<<TagWork, TagX>>, <<TagHome>>}

FilterTags == {<<>>, <<TagWork>>, <<TagWork, TagX>>, <<TagHome, TagX>>}

\* The summary of the server's i-th note.
Summary(i, tags, deleted) ==
    [EmptyNote EXCEPT !.Key = KeyOf(i), !.Tags = tags, !.Deleted = deleted,
                      !.ModifyDate = Itoa(100 * i)]

SummaryKinds == SummaryTags \X {0, 1}

Accounts ==
    UNION {{[i \in 1..n |-> Summary(i, k[i][1], k[i][2])] :
                k \in [1..n -> SummaryKinds]} : n \in 0..MaxNotes}

DefaultCfg ==
    [Email |-> "user@example.com", Password |-> "secret", Markdown |-> TRUE,
     Editor |-> "vim"]

ListParams(tags, n, deleted) ==
    [Content |-> <<>>, Tags |-> tags, Action |-> <<"l", "i", "s", "t">>,
     Key |-> <<>>,
     Flags |-> [n |-> ConvertIntToString(n),
                deleted |-> ConvertBoolToString(deleted),
                permanently |-> ConvertBoolToString(FALSE)]]

InitIndex ==
    /\ Params \in {ListParams(tags, -1, d) : tags \in FilterTags, d \in BOOLEAN}
    /\ Cfg = DefaultCfg
    /\ Token = 1
    /\ srvIndex \in Accounts
    /\ srvPage \in 1..MaxNotes
    /\ srvTok = 1
    /\ budget = 1
    /\ faults = 0
    /\ net = [t \in Threads |-> <<>>]
    /\ mr = [t \in Threads |-> IdleCall]
    /\ frames = <<Frame(<<>>, 0)>>
    /\ pc = "getAllNotes"
    /\ exit = "running"
    /\ result = [notes |-> <<>>, err |-> "nil"]
    /\ args = <<>>
    /\ tty = NoTty
    /\ note = EmptyNote
    /\ err = "nil"
    /\ out = <<>>
    /\ task = [t \in 1..MaxNotes |-> IdleTask]
    /\ noteCh = <<>>
    /\ fullNotes = <<>>
    /\ reqTimeout = "none"

NextIndex ==
    \/ MRBuild(0)
    \/ MRDo(0)
    \/ MRAuthorize(0)
    \/ GetAllNotesRequest
    \/ GetAllNotesPage
    \/ GetAllNotesReturn
    \/ GetAllNotesDone

SpecIndex == InitIndex /\ [][NextIndex]_vars

(***************************************************************************)
(* The program: the runs of Runs against an account of MaxNotes notes.     *)
(***************************************************************************)
Hello == <<"h", "e", "l", "l", "o">>

Dash(w) == <<"-">> \o w
DashDash(w) == <<"-", "-">> \o w
At(tag) == <<tagPrefix>> \o tag

Key32 == KeyOf(1)
Key31 == SubSeq(KeyOf(1), 1, SimpleNoteKeyLength - 1)
Key33 == KeyOf(1) \o <<"1">>

\* The command lines that create a note: what the terminal holds matters.
CreateLines == {<<>>, <<Hello>>, <<At(TagWork), Hello>>}

\* The command lines of the actions.
ActionLines ==
    {<<WordVersion>>,
     <<WordList>>,
     <<WordList, At(TagWork), Dash(WordN), <<"1">>, DashDash(WordDeleted)>>,
     <<WordGet>>, <<WordGet, Key32>>, <<WordGet, Key31>>, <<WordGet, Key33>>,
     <<WordEdit>>, <<WordEdit, Key32>>, <<WordEdit, Key31>>, <<WordEdit, Key33>>,
     <<WordDelete>>, <<WordDelete, Key32>>, <<WordDelete, Key31>>,
     <<WordDelete, Key33>>, <<WordDelete, Key32, DashDash(WordPermanently)>>}

Terminal ==
    [Piped |-> FALSE, Stdin |-> <<>>, Editor |-> <<"n", "e", "w", "\n">>,
     EditorErr |-> FALSE]

Ttys ==
    {Terminal,
     [Piped |-> FALSE, Stdin |-> <<>>, Editor |-> <<>>, EditorErr |-> TRUE],
     [Piped |-> TRUE, Stdin |-> <<"h", "i">>, Editor |-> <<>>, EditorErr |-> FALSE],
     [Piped |-> TRUE, Stdin |-> <<>>, Editor |-> <<>>, EditorErr |-> FALSE]}

\* The server's i-th note: every second note is in the trash, the notes carry
\* the tags work and home in turn, and two notes in a row share their second.
Stored(i) ==
    [EmptyNote EXCEPT !.Key = KeyOf(i),
                      !.Content = <<"n", "o", "t", "e">> \o Itoa(i),
                      !.Tags = IF i % 2 = 1 THEN <<TagWork>> ELSE <<TagHome>>,
                      !.Deleted = IF i % 3 = 0 THEN 1 ELSE 0,
                      !.ModifyDate = Itoa(100 * ((i + 1) \div 2)) \o <<".", "5">>]

\* The runs: a note created on every terminal, with and without markdown;
\* every action on a terminal; edit with an editor that fails; an action
\* with a key that is too short on a pipe.
Runs ==
    {[args |-> a, tty |-> t, markdown |-> m] :
        a \in CreateLines, t \in Ttys, m \in BOOLEAN}
    \cup {[args |-> a, tty |-> Terminal, markdown |-> TRUE] : a \in ActionLines}
    \cup {[args |-> <<WordEdit, Key32>>, tty |-> t, markdown |-> TRUE] :
            t \in Ttys \ {Terminal}}
    \cup {[args |-> <<WordGet, Key31>>, tty |-> t, markdown |-> TRUE] :
            t \in Ttys \ {Terminal}}

Init ==
    /\ Params = NewParams
    /\ \E run \in Runs :
        /\ args = run.args
        /\ tty = run.tty
        /\ Cfg = [DefaultCfg EXCEPT !.Markdown = run.markdown]
    /\ Token = 0
    /\ srvIndex = [i \in 1..MaxNotes |-> Stored(i)]
    /\ srvPage \in {1, MaxNotes}
    /\ srvTok = 0
    /\ budget = MaxFaults
    /\ faults = 0
    /\ net = [t \in Threads |-> <<>>]
    /\ mr = [t \in Threads |-> IdleCall]
    /\ frames = <<>>
    /\ pc = "main"
    /\ exit = "running"
    /\ result = [notes |-> <<>>, err |-> "nil"]
    /\ note = EmptyNote
    /\ err = "nil"
    /\ out = <<>>
    /\ task = [t \in 1..MaxNotes |-> IdleTask]
    /\ noteCh = <<>>
    /\ fullNotes = <<>>
    /\ reqTimeout = "none"

Next ==
    \/ Parse
    \/ MainAuthorize
    \/ Handle
    \/ FetchNoteRequest
    \/ GetNote
    \/ EditNote
    \/ DeleteNote
    \/ UpdateNote
    \/ DeletePermanently
    \/ CreateNoteRequest
    \/ CreateNote
    \/ GetAllNotesRequest
    \/ GetAllNotesPage
    \/ GetAllNotesReturn
    \/ GetAllNotesDone
    \/ ListNotesStart
    \/ ListNotesReceive
    \/ ListNotesTimeout
    \/ TimerFires
    \/ \E t \in Threads : MRBuild(t) \/ MRDo(t) \/ MRAuthorize(t)
    \/ \E t \in 1..MaxNotes : TaskRequest(t) \/ TaskFetched(t) \/ TaskSend(t)

Spec == Init /\ [][Next]_vars

(***************************************************************************)
(* The list flow alone: listNotes for an authorized client, every note of  *)
(* the account on one index page and kept.                                 *)
(***************************************************************************)
InitList ==
    /\ Params \in {ListParams(<<>>, n, TRUE) : n \in {-1, 1}}
    /\ Cfg = DefaultCfg
    /\ Token = 1
    /\ srvIndex \in {[i \in 1..k |-> Stored(i)] : k \in 0..MaxNotes}
    /\ srvPage = MaxNotes
    /\ srvTok = 1
    /\ budget = 1
    /\ faults = 0
    /\ net = [t \in Threads |-> <<>>]
    /\ mr = [t \in Threads |-> IdleCall]
    /\ frames = <<Frame(<<>>, 0)>>
    /\ pc = "getAllNotes"
    /\ exit = "running"
    /\ result = [notes |-> <<>>, err |-> "nil"]
    /\ args = <<>>
    /\ tty = NoTty
    /\ note = EmptyNote
    /\ err = "nil"
    /\ out = <<>>
    /\ task = [t \in 1..MaxNotes |-> IdleTask]
    /\ noteCh = <<>>
    /\ fullNotes = <<>>
    /\ reqTimeout = "none"

NextList ==
    \/ GetAllNotesRequest
    \/ GetAllNotesPage
    \/ GetAllNotesDone
    \/ ListNotesStart
    \/ ListNotesReceive
    \/ ListNotesTimeout
    \/ TimerFires
    \/ \E t \in Threads : MRBuild(t) \/ MRDo(t) \/ MRAuthorize(t)
    \/ \E t \in 1..MaxNotes : TaskRequest(t) \/ TaskFetched(t) \/ TaskSend(t)

SpecList == InitList /\ [][NextList]_vars

(***************************************************************************)
(* showNotes alone: every collection of up to MaxShow fetched notes and    *)
(* every value of the flag n from -2 to MaxLimit.                          *)
(***************************************************************************)
ShowDates == {<<"1", "0", "0">>, <<"3", "0", "0">>, <<"2", "0", "0", ".", "7">>}

ShowContents == {<<>>, <<"a">>}

Fetched(i, date, content) ==
    [EmptyNote EXCEPT !.Key = KeyOf(i), !.ModifyDate = date, !.Content = content]

Collections ==
    UNION {{[i \in 1..n |-> Fetched(i, k[i][1], k[i][2])] :
                k \in [1..n -> ShowDates \X ShowContents]} : n \in 0..MaxShow}

InitShow ==
    /\ Params \in {ListParams(<<>>, n, FALSE) : n \in -2..MaxLimit}
    /\ Cfg = DefaultCfg
    /\ Token = 1
    /\ srvIndex = <<>>
    /\ srvPage = 1
    /\ srvTok = 1
    /\ budget = 0
    /\ faults = 0
    /\ net = [t \in Threads |-> <<>>]
    /\ mr = [t \in Threads |-> IdleCall]
    /\ frames = <<>>
    /\ pc = "showNotes"
    /\ exit = "running"
    /\ result = [notes |-> <<>>, err |-> "nil"]
    /\ args = <<>>
    /\ tty = NoTty
    /\ note = EmptyNote
    /\ err = "nil"
    /\ out = <<>>
    /\ task = [t \in 1..MaxNotes |-> IdleTask]
    /\ noteCh = <<>>
    /\ fullNotes \in Collections
    /\ reqTimeout = "none"

\* The call showNotes(fullNotes).
ShowNotes ==
    /\ exit = "running"
    /\ pc = "showNotes"
    /\ ShowAndReturn(fullNotes)
    /\ UNCHANGED <<cliVars, Token, srvData, srvTok, faults, net, mr, frames, pc,
                   result, note, listVars>>

NextShow == ShowNotes

SpecShow == InitShow /\ [][NextShow]_vars

(***************************************************************************)
(* makeRequest alone: one call by an authorized client, for each kind of   *)
(* request of the client and for caller parameters named as the            *)
(* parameters that parseAddr adds.                                         *)
(***************************************************************************)
OtherToken == 99

OtherEmail == "other@example.com"

CallerParams ==
    {NilParams, IndexParams(0), IndexParams(1),
     [k \in {"auth"} |-> OtherToken],
     [k \in {"email"} |-> OtherEmail]}

Requests ==
    {Call([endpoint |-> "index", key |-> <<>>], "GET", NoBody, p) :
        p \in CallerParams}
    \cup {Call(DataAddr(KeyOf(1)), "GET", NoBody, NilParams),
          Call(DataAddr(<<>>), "POST", JsonBody(Stored(1)), NilParams),
          Call(DataAddr(KeyOf(1)), "POST", JsonBody(Stored(1)), NilParams),
          Call(DataAddr(KeyOf(1)), "DELETE", NoBody, NilParams)}

InitRequest ==
    /\ Params = NewParams
    /\ Cfg = DefaultCfg
    /\ Token = 1
    /\ srvIndex = [i \in 1..MaxNotes |-> Stored(i)]
    /\ srvPage = 1
    /\ srvTok = 1
    /\ budget = MaxFaults
    /\ faults = 0
    /\ net = [t \in Threads |-> <<>>]
    /\ mr \in {[t \in Threads |-> IF t = 0 THEN c ELSE IdleCall] : c \in Requests}
    /\ frames = <<>>
    /\ pc = "makeRequest"
    /\ exit = "running"
    /\ result = [notes |-> <<>>, err |-> "nil"]
    /\ args = <<>>
    /\ tty = NoTty
    /\ note = EmptyNote
    /\ err = "nil"
    /\ out = <<>>
    /\ task = [t \in 1..MaxNotes |-> IdleTask]
    /\ noteCh = <<>>
    /\ fullNotes = <<>>
    /\ reqTimeout = "none"

NextRequest == MRBuild(0) \/ MRDo(0) \/ MRAuthorize(0)

SpecRequest == InitRequest /\ [][NextRequest]_vars

\* The call goes on as long as it has a step to take.
SpecRequestFair == SpecRequest /\ WF_vars(NextRequest)

(***************************************************************************)
(* Properties of the index fetch.                                          *)
(***************************************************************************)
\* No reply so far was anything but a well-formed 200.
NoFault == faults = 0

\* The deletion filter and the tag filter as the documentation states them.
PassesDeletion(n) == Params.Flags.deleted = "true" \/ n.Deleted /= 1

MatchesTags(n) ==
    \/ Params.Tags = <<>>
    \/ \E i \in 1..Len(Params.Tags), j \in 1..Len(n.Tags) : Params.Tags[i] = n.Tags[j]

Keep(n) == PassesDeletion(n) /\ MatchesTags(n)

\* The index requests issued so far.
IndexRequests ==
    Cardinality({i \in 1..Len(net[0]) :
                    net[0][i].kind = "api" /\ net[0][i].addr.endpoint = "index"})

\* The call getAllNotes(<<>>, "") of listNotes has ended.
IndexEnded == pc = "listNotes" \/ exit /= "running"

\* C1: when every index page is served with 200, getAllNotes called with an
\* empty accumulator and the empty mark returns the concatenation of the
\* pages' filtered items: every kept summary once, in index order.
C1_ReturnsConcatenation ==
    (NoFault /\ IndexEnded) =>
        /\ pc = "listNotes"
        /\ result.err = "nil"
        /\ result.notes = SelectSeq(srvIndex, Keep)

\* C2: when every index page is served with 200, getAllNotes issues one
\* index request per page and no more.
C2_OneRequestPerPage == NoFault => IndexRequests <= NumPages

\* The frames that have filtered their page: those waiting for the nested
\* call and the innermost one that returned the last page.
Filtered(k) ==
    \/ frames[k].st = "rec"
    \/ /\ frames[k].st = "done"
       /\ frames[k].err = "nil"
       /\ ServerPage(frames[k].mark).Mark = 0

\* The accumulator frame k was called with.
Given(k) == IF k = 1 THEN <<>> ELSE frames[k - 1].notes

\* What frame k appended to the accumulator it was called with.
Added(k) == SubSeq(frames[k].notes, Len(Given(k)) + 1, Len(frames[k].notes))

PageData(k) == ServerPage(frames[k].mark).Data

\* C7: of a page, getAllNotes appends to its accumulator the summaries that
\* pass the deletion filter and, when the tag filter is not empty, carry at
\* least one of its tags; each of them once, in the order of the page.
C7_TagFilter ==
    \A k \in 1..Len(frames) :
        Filtered(k) =>
            /\ Len(frames[k].notes) >= Len(Given(k))
            /\ SubSeq(frames[k].notes, 1, Len(Given(k))) = Given(k)
            /\ Added(k) = SelectSeq(SelectSeq(PageData(k), PassesDeletion), MatchesTags)

\* A page with a summary carrying both filter tags and a summary carrying
\* none of them has been filtered.
C7_Witness ==
    /\ Params.Tags = <<TagWork, TagX>>
    /\ Len(frames) = 1
    /\ Filtered(1)
    /\ Len(frames[1].notes) = 1
    /\ \E i, j \in 1..Len(PageData(1)) :
          /\ \A t \in 1..2 : CheckIn(Params.Tags[t], PageData(1)[i].Tags)
          /\ PageData(1)[i].Deleted = 0
          /\ ~MatchesTags(PageData(1)[j])

\* C8: unless the flag deleted is "true", no summary with deleted = 1 is in
\* any accumulator nor in the result; when it is "true", every summary of a
\* filtered page with deleted = 1 that matches the tag filter is kept.
C8_DeletionFilter ==
    /\ Params.Flags.deleted /= "true" =>
          /\ \A k \in 1..Len(frames) :
                \A i \in 1..Len(frames[k].notes) : frames[k].notes[i].Deleted /= 1
          /\ \A i \in 1..Len(result.notes) : result.notes[i].Deleted /= 1
    /\ Params.Flags.deleted = "true" =>
          \A k \in 1..Len(frames) :
              Filtered(k) =>
                  \A i \in 1..Len(PageData(k)) :
                      (PageData(k)[i].Deleted = 1 /\ MatchesTags(PageData(k)[i]))
                          => CheckIn(PageData(k)[i], Added(k))

\* Without the flag, a page holding a deleted and a live summary has been
\* filtered and getAllNotes returned the live one alone.
C8_Witness ==
    /\ Params.Flags.deleted /= "true"
    /\ pc = "listNotes"
    /\ result.err = "nil"
    /\ Len(result.notes) = 1
    /\ \E i \in 1..Len(srvIndex) : srvIndex[i].Deleted = 1 /\ MatchesTags(srvIndex[i])

(***************************************************************************)
(* Properties of makeRequest.                                              *)
(***************************************************************************)
\* The last three exchanges of thread t, whose makeRequest call has returned
\* and whose caller has not yet looked at the result: a request refused with
\* 401 or 403, the login of the Authorize that followed and got a token, and
\* the request answered with 200 and a body that could be read.
ReAuthRetry(t) ==
    LET n == Len(net[t])
    IN  /\ mr[t].st = "ret"
        /\ n >= 3
        /\ net[t][n - 2].kind = "api"
        /\ net[t][n - 2].reply.code \in {StatusUnauthorized, StatusForbidden}
        /\ net[t][n - 1].kind = "login"
        /\ net[t][n - 1].reply.kind = "status"
        /\ net[t][n - 1].reply.code = StatusOK
        /\ net[t][n].kind = "api"
        /\ net[t][n].reply.kind = "ok"
        /\ net[t][n].reply.code = StatusOK

\* The token that Authorize was issued.
IssuedToken(t) == net[t][Len(net[t]) - 1].reply.body

\* makeRequest returned the body and the status of the last reply.
Returns200(t) ==
    /\ mr[t].code = StatusOK
    /\ mr[t].err = "nil"
    /\ mr[t].response = net[t][Len(net[t])].reply.body

\* The tokens that the requests of thread t carried before that Authorize.
CarriedBefore(t) ==
    {net[t][k].query["auth"] :
        k \in {i \in 1..(Len(net[t]) - 2) : net[t][i].kind = "api"}}

\* Another thread was issued a token after that Authorize; the server
\* issues its tokens in increasing order.
LaterLogin(t) ==
    \E u \in Threads \ {t} : \E k \in 1..Len(net[u]) :
        /\ net[u][k].kind = "login"
        /\ AuthorizeErr(net[u][k].reply) = "nil"
        /\ net[u][k].reply.body > IssuedToken(t)

ShowNotesCalls == {i \in 1..Len(out) : out[i].fn = "showNotes"}

\* The fetch tasks that listNotes launched.
Launched == 1..Len(result.notes)

\* C4: when there are summaries, the collection handed to showNotes holds as
\* many notes as fetch tasks were launched, and the note that each task
\* fetched, the server's note of its summary's key, is in it exactly once:
\* in every order in which the tasks deliver.
C4_AllNotesCollected ==
    \A i \in ShowNotesCalls :
        Len(result.notes) > 0 =>
            /\ Len(out[i].notes) = Len(result.notes)
            /\ \A t \in Launched :
                  /\ task[t].st = "done"
                  /\ task[t].n = NoteFor(result.notes[t].Key)
                  /\ Cardinality({j \in 1..Len(out[i].notes) :
                                     out[i].notes[j] = task[t].n}) = 1

\* showNotes was handed the notes of MaxNotes tasks, the note of the last
\* task first.
C4_Witness ==
    /\ Len(result.notes) = MaxNotes
    /\ \E i \in ShowNotesCalls :
          /\ Len(out[i].notes) = MaxNotes
          /\ out[i].notes[1] = task[MaxNotes].n

TimeoutErr == "Timeout when fetching notes"

\* The task t has not delivered its note.
Incomplete(t) == task[t].st /= "done"

\* C5: while a fetch task has not delivered its note showNotes is not
\* invoked, whatever has been collected; when listNotes ends then and no
\* request failed, it returns the timeout error, which it only returns once
\* the timer has fired.
C5_TimeoutNoPartial ==
    /\ (\E t \in Launched : Incomplete(t)) => ShowNotesCalls = {}
    /\ (NoFault /\ exit /= "running" /\ \E t \in Launched : Incomplete(t))
          => (exit = "fatal" /\ err = TimeoutErr)
    /\ err = TimeoutErr =>
          (exit = "fatal" /\ reqTimeout = "fired" /\ ShowNotesCalls = {})

\* listNotes returned the timeout error with a note collected and a fetch
\* that has not completed.
C5_Witness ==
    /\ err = TimeoutErr
    /\ exit = "fatal"
    /\ fullNotes /= <<>>
    /\ \E t \in Launched : task[t].st = "fetch"
    /\ out = <<>>

(***************************************************************************)
(* Properties of showNotes.                                                *)
(***************************************************************************)
Stamp(n) == GetSimpleNoteTimestamp(n.ModifyDate)

\* The notes of the collection c that are not empty.
Showable(c) == {c[i] : i \in {j \in 1..Len(c) : c[j].Content /= <<>>}}

\* C6: with the flag n set to limit, showNotes prints the records of notes
\* of the collection that are not empty, none twice, in ascending order of
\* modification timestamp; all of them when limit is -1 and otherwise
\* min(limit, count) of them, none older than one that is left out.
C6_SortAndLimit ==
    \A limit \in -1..MaxLimit :
        Params.Flags.n = Itoa(limit) =>
            /\ exit /= "panic"
            /\ \A c \in ShowNotesCalls :
                  LET printed == out[c].parsed
                      count == Cardinality(Showable(out[c].notes))
                  IN  /\ Len(printed) = IF limit = -1 THEN count
                                        ELSE Min(limit, count)
                      /\ \A i \in 1..Len(printed) :
                            printed[i] \in Showable(out[c].notes)
                      /\ \A i, j \in 1..Len(printed) :
                            i < j => /\ printed[i] /= printed[j]
                                     /\ Stamp(printed[i]) <= Stamp(printed[j])
                      /\ \A x \in Showable(out[c].notes) :
                            (\A i \in 1..Len(printed) : printed[i] /= x) =>
                                \A i \in 1..Len(printed) :
                                    Stamp(x) <= Stamp(printed[i])

\* Notes modified at 100, 300 and 200 with the limit 2: the notes of 200 and
\* of 300 are printed, in this order.
C6_Witness ==
    /\ Params.Flags.n = <<"2">>
    /\ Len(fullNotes) = 3
    /\ Stamp(fullNotes[1]) = 100
    /\ Stamp(fullNotes[2]) = 300
    /\ Stamp(fullNotes[3]) = 200
    /\ ShowNotesCalls /= {}
    /\ \A c \in ShowNotesCalls : out[c].parsed = <<fullNotes[3], fullNotes[2]>>

(***************************************************************************)
(* Properties of the whole program.                                        *)
(***************************************************************************)
\* createNote succeeded.
Created == pc = "createNote_wait" /\ exit = "ok"

\* The note that the server answered the last request with.
Answered == net[0][Len(net[0])].reply.body.note

\* C9: the note that createNote returns, which Handle shows, has the content
\* of the command line parameters and the key of the server's response.
C9_CreateRoundTrip ==
    Created =>
        /\ out /= <<>>
        /\ out[Len(out)].fn = "showNote"
        /\ out[Len(out)].parsed[1].Content = Params.Content
        /\ out[Len(out)].parsed[1].Key = Answered.Key
        /\ Answered.Key /= <<>>

\* A note with content was created and the server's response had a key and
\* no content.
C9_Witness ==
    /\ Created
    /\ Params.Content = Hello
    /\ Answered.Content = <<>>
    /\ out[Len(out)].parsed[1].Content = Hello
    /\ out[Len(out)].parsed[1].Key = KeyOf(Len(srvIndex) + 1)

\* The command line names edit, delete or get and has no key or a key whose
\* length is not SimpleNoteKeyLength.
BadKey ==
    /\ Len(args) >= 1
    /\ args[1] \in {WordEdit, WordDelete, WordGet}
    /\ Len(args) < 2 \/ Len(args[2]) /= SimpleNoteKeyLength

ParseErrors == {"Missing note key parameter.", "Invalid identifier passed"}

\* C10: edit, delete and get with no key or a key whose length is not 32
\* end with a parse error, and no request is ever sent.
C10_KeyValidation ==
    BadKey =>
        /\ \A t \in Threads : net[t] = <<>>
        /\ pc = "main"
        /\ exit \in {"running", "fatal"}
        /\ exit = "fatal" => err \in ParseErrors

\* get with a key of 31 characters has ended with the parse error.
C10_Witness ==
    /\ args = <<WordGet, Key31>>
    /\ exit = "fatal"
    /\ err = "Invalid identifier passed"
    /\ \A t \in Threads : net[t] = <<>>

\* C11: the query of every request that makeRequest has built carries the
\* session token as auth and the configured email as email, whatever the
\* caller's parameters are named.
C11_AuthParamsWin ==
    mr[0].st = "do" =>
        /\ mr[0].query["auth"] = Token
        /\ mr[0].query["email"] = Cfg.Email

\* The login that a step of thread t adds to its exchanges.
LoggedIn(t) ==
    /\ Len(net'[t]) = Len(net[t]) + 1
    /\ net'[t][Len(net'[t])].kind = "login"

\* C12: a step of Authorize stores the body it was answered as the session
\* token when the answer is a 200; on another status it leaves the token as
\* it was and the error it returns names that status; and the token changes
\* in no other case.
C12_AuthorizeOn200 ==
    [][\A t \in Threads :
          LoggedIn(t) =>
              LET reply == net'[t][Len(net'[t])].reply
                  answered == reply.kind = "status"
              IN  /\ (answered /\ reply.code = StatusOK) => Token' = reply.body
                  /\ (answered /\ reply.code /= StatusOK) =>
                        /\ Token' = Token
                        /\ mr[t].st = "auth" =>
                              /\ mr'[t].st = "ret"
                              /\ mr'[t].err =
                                    "Error authorizing the client, check if username or password are valid. Status code was : "
                                        \o ToString(reply.code)
                  /\ Token' /= Token => (answered /\ reply.code = StatusOK)]_vars

\* Authorize was answered 500 and makeRequest returned its error, the token
\* being the one the client had.
C12_Witness ==
    /\ pc = "makeRequest"
    /\ net[0] /= <<>>
    /\ net[0][Len(net[0])].kind = "login"
    /\ net[0][Len(net[0])].reply.code = StatusInternalServerError
    /\ mr[0].st = "ret"
    /\ mr[0].err =
          "Error authorizing the client, check if username or password are valid. Status code was : 500"
    /\ Token = 1

\* The k-th exchange of thread t is a login that Authorize failed on.
FailedLogin(t, k) ==
    /\ net[t][k].kind = "login"
    /\ AuthorizeErr(net[t][k].reply) /= "nil"

\* C13: after an Authorize that failed, at start-up or within makeRequest,
\* the operation sends no request to the index or data endpoints, and
\* unless it only prints the version it does not end well.
C13_AuthFailureTerminal ==
    \A t \in Threads : \A k \in 1..Len(net[t]) :
        FailedLogin(t, k) =>
            /\ \A j \in (k + 1)..Len(net[t]) : net[t][j].kind /= "api"
            /\ Params.Action /= WordVersion => exit /= "ok"

\* The fetch of task t has ended with a request error, with a status that is
\* neither 200 nor retried, or with a body that does not decode.
FetchFailed(t) ==
    /\ net[t] /= <<>>
    /\ LET e == net[t][Len(net[t])]
       IN  \/ /\ e.kind = "api"
              /\ \/ e.reply.kind \in {"neterr", "readerr"}
                 \/ e.reply.code \notin {StatusOK, StatusUnauthorized,
                                         StatusForbidden,
                                         StatusInternalServerError,
                                         StatusPreconditionFailed}
                 \/ e.reply.code = StatusOK /\ e.reply.body.kind /= "note"
           \/ /\ e.kind = "login"
              /\ AuthorizeErr(e.reply) /= "nil"

\* C14: when the fetch of a launched task has failed, showNotes has not been
\* and is not invoked and the listing does not end well, whatever has been
\* delivered.
C14_NoPartialListing ==
    (\E t \in Launched : FetchFailed(t)) =>
        /\ ShowNotesCalls = {}
        /\ exit /= "ok"

\* A fetch was answered 404 after the note of another task was collected,
\* and the process has ended with the error.
C14_Witness ==
    /\ \E t \in Launched :
          /\ FetchFailed(t)
          /\ net[t][Len(net[t])].reply.code = 404
    /\ fullNotes /= <<>>
    /\ exit = "fatal"
    /\ err = "status"
    /\ out = <<>>

\* The notes c in the order p.
Arrived(c, p) == [i \in 1..Len(c) |-> c[p[i]]]

\* C15: the sequence that showNotes presented is the one it presents for
\* the same notes in every order in which the fetch tasks can deliver them.
C15_DeterministicOrder ==
    \A c \in ShowNotesCalls :
        \A p \in Orders(Len(out[c].notes)) :
            \A o \in showNotes(Arrived(out[c].notes, p)) :
                o.shown.parsed = out[c].parsed

IsApi(e) == e.kind = "api"

\* The requests that the call makeRequest of thread 0 has sent.
Attempts == SelectSeq(net[0], IsApi)

\* C16: every request that a call of makeRequest sends after the first, a
\* retry, has the method, the address, the caller parameters and the body of
\* the first.
C16_RetrySameRequest ==
    \A k \in 2..Len(Attempts) :
        /\ Attempts[k].method = Attempts[1].method
        /\ Attempts[k].addr = Attempts[1].addr
        /\ Attempts[k].params = Attempts[1].params
        /\ Attempts[k].body = Attempts[1].body

\* The k-th exchange of the main thread is a request with the method.
Sent(k, method) == net[0][k].kind = "api" /\ net[0][k].method = method

\* The k-th exchange is the POST of the note of the key of the command line
\* with deleted = 1.
Trashes(k) ==
    /\ Sent(k, "POST")
    /\ net[0][k].addr = DataAddr(Params.Key)
    /\ net[0][k].body.kind = "json"
    /\ net[0][k].body.note.Deleted = 1

\* The last request before the k-th exchange that is no DELETE request.
BeforeDeletes(k) ==
    net[0][CHOOSE j \in 1..(k - 1) :
              /\ net[0][j].kind = "api"
              /\ net[0][j].method /= "DELETE"
              /\ \A i \in (j + 1)..(k - 1) :
                    net[0][i].kind = "api" => net[0][i].method = "DELETE"]

\* C17: deleteNote sends its POST, which carries the note with deleted = 1,
\* after the note was fetched; a DELETE request is sent only with the flag
\* permanently being "true", after that POST, and with 200 being the answer
\* to the last request of the update.
C17_DeleteOrdering ==
    Params.Action = WordDelete =>
        \A k \in 1..Len(net[0]) :
            /\ Sent(k, "POST") =>
                  /\ \E g \in 1..(k - 1) :
                        /\ Sent(g, "GET")
                        /\ net[0][g].addr = DataAddr(Params.Key)
                        /\ net[0][g].reply.code = StatusOK
                  /\ \E p \in 1..k : Trashes(p)
            /\ Sent(k, "DELETE") =>
                  /\ Params.Flags.permanently = "true"
                  /\ net[0][k].addr = DataAddr(Params.Key)
                  /\ \E p \in 1..(k - 1) : Trashes(p)
                  /\ BeforeDeletes(k).method = "POST"
                  /\ BeforeDeletes(k).reply.kind = "ok"
                  /\ BeforeDeletes(k).reply.code = StatusOK

\* delete --permanently has fetched the note, posted it with deleted = 1,
\* been answered 200, sent the DELETE request and ended well.
C17_Witness ==
    /\ Params.Action = WordDelete
    /\ Params.Flags.permanently = "true"
    /\ exit = "ok"
    /\ Len(net[0]) = 4
    /\ Sent(2, "GET")
    /\ Trashes(3)
    /\ net[0][3].reply.code = StatusOK
    /\ Sent(4, "DELETE")

\* C18: when Client.Do gives no response to a request of makeRequest, the
\* process does not crash and makeRequest returns the error to its caller.
C18_TransportErrorReturned ==
    \A t \in Threads :
        (/\ net[t] /= <<>>
         /\ net[t][Len(net[t])].kind = "api"
         /\ net[t][Len(net[t])].reply.kind = "neterr") =>
            /\ exit /= "panic"
            /\ mr[t].st = "ret" => mr[t].err /= "nil"

IsIndexRequest(e) == e.kind = "api" /\ e.addr.endpoint = "index"

\* The index requests of getAllNotes, in the order sent.
IndexCalls == SelectSeq(net[0], IsIndexRequest)

\* C19: with every page served, each index request has length = 100; the
\* first has no mark and each one after it has the mark that the page before
\* it came with.
C19_IndexMarks ==
    NoFault =>
        \A k \in 1..Len(IndexCalls) :
            /\ IndexCalls[k].query["length"] = <<"1", "0", "0">>
            /\ k = 1 => "mark" \notin DOMAIN IndexCalls[k].query
            /\ k > 1 =>
                  /\ "mark" \in DOMAIN IndexCalls[k].query
                  /\ IndexCalls[k].query["mark"] = IndexCalls[k - 1].reply.body.Mark

Consumed ==
    {StatusUnauthorized, StatusForbidden, StatusInternalServerError,
     StatusPreconditionFailed}

\* C20: what makeRequest returns with no error is the status and the body of
\* the last answer, and that status is not 401, 403, 500 or 412: on an
\* answer with one of these makeRequest does not return.
C20_ReturnedStatus ==
    \A t \in Threads :
        /\ (mr[t].st = "ret" /\ mr[t].err = "nil") =>
              /\ mr[t].code \notin Consumed
              /\ net[t] /= <<>>
              /\ net[t][Len(net[t])].kind = "api"
              /\ mr[t].code = net[t][Len(net[t])].reply.code
              /\ mr[t].response = net[t][Len(net[t])].reply.body
        /\ (/\ net[t] /= <<>>
            /\ net[t][Len(net[t])].kind = "api"
            /\ net[t][Len(net[t])].reply.kind = "ok"
            /\ net[t][Len(net[t])].reply.code \in Consumed) => mr[t].st /= "ret"

\* makeRequest has returned 404 and its body after an answer of 500.
C20_Witness ==
    /\ pc = "makeRequest"
    /\ mr[0].st = "ret"
    /\ mr[0].err = "nil"
    /\ mr[0].code = 404
    /\ mr[0].response = [kind |-> "text"]
    /\ Len(net[0]) = 2
    /\ net[0][1].reply.code = StatusInternalServerError

\* The last answer to thread 0 is an answer with one of the statuses.
LastAnswer(statuses) ==
    /\ net[0] /= <<>>
    /\ net[0][Len(net[0])].kind = "api"
    /\ net[0][Len(net[0])].reply.kind = "ok"
    /\ net[0][Len(net[0])].reply.code \in statuses

\* After an answer of 500 or 412 makeRequest is in its next attempt, however
\* many attempts there were; after one of 401 or 403 it is in Authorize or
\* the next attempt, or has returned the error of Authorize.
RetryGoesOn ==
    /\ LastAnswer({StatusInternalServerError, StatusPreconditionFailed}) =>
          mr[0].st \in {"build", "do"}
    /\ LastAnswer({StatusUnauthorized, StatusForbidden}) =>
          mr[0].st \in {"auth", "build", "do"}
    /\ (mr[0].st = "ret" /\ exit = "running") =>
          \/ LastAnswer(Nat \ Consumed)
          \/ net[0][Len(net[0])].reply.kind = "readerr"
          \/ /\ net[0][Len(net[0])].kind = "login"
             /\ mr[0].err /= "nil"

\* C21: makeRequest attempts again after every answer of 401, 403, 500 or
\* 412, with no bound of its own on the attempts, and it returns once the
\* server, after finitely many of them, answers with another status.
C21_DispatcherTermination ==
    /\ []RetryGoesOn
    /\ <>(mr[0].st = "ret" \/ exit /= "running")

\* makeRequest has returned a 200 after as many answers of 500 as the
\* server gave.
C21_Witness ==
    /\ pc = "makeRequest"
    /\ mr[0].st = "ret"
    /\ mr[0].code = StatusOK
    /\ Len(net[0]) = MaxFaults + 1
    /\ \A k \in 1..MaxFaults :
          net[0][k].kind = "api" /\ net[0][k].reply.code = StatusInternalServerError

\* The fetch task t is in the Authorize of makeRequest, which stores s.Token.
WritesToken(t) == mr[t].st = "auth"

\* The fetch task t is in parseAddr, which reads s.Token.
ReadsToken(t) == mr[t].st = "build"

\* C22: no two fetch tasks are at once the one where s.Token is stored and
\* the other where it is read.
C22_TokenGuarded ==
    \A t, u \in 1..MaxNotes :
        t /= u => ~(WritesToken(t) /\ ReadsToken(u))

\* The tasks that have sent their note.
Senders == {t \in Launched : task[t].st = "done"}

\* C23: in the select loop each launched task has sent at most one note, the
\* notes in noteCh and the notes collected are together no more than the
\* tasks, and noteCh has room for the note of every task that is at its
\* send, also after the timer has fired.
C23_SendNeverBlocks ==
    pc = "select" =>
        /\ Len(noteCh) + Len(fullNotes) = Cardinality(Senders)
        /\ Len(noteCh) + Len(fullNotes) <= Len(result.notes)
        /\ \A t \in Launched : task[t].st = "send" => Len(noteCh) < Cap

\* The timer has fired, no note has been collected and every task has sent
\* its note but the last, which is at its send.
C23_Witness ==
    /\ pc = "select"
    /\ exit = "running"
    /\ reqTimeout = "fired"
    /\ Len(result.notes) = MaxNotes
    /\ fullNotes = <<>>
    /\ Len(noteCh) = MaxNotes - 1
    /\ task[MaxNotes].st = "send"

\* len(parsed) for the notes that showNotes is called with.
Displayable == Cardinality(Showable(fullNotes))

\* C24: whatever integer the flag n is, the cut of showNotes is an index
\* from 0 to the number of notes to display, and showNotes has ended without
\* a slice out of range.
C24_CutInRange ==
    exit /= "running" =>
        /\ (Displayable > 0 /\ Params.Flags.n /= <<"-", "1">>) =>
              (0 <= Cut(Displayable) /\ Cut(Displayable) <= Displayable)
        /\ exit /= "panic"

====
